---- MODULE Spec2Model ----
(***************************************************************************)
(* Model of the UniFi firmware container codec of                          *)
(* src/unifi-firmware-tool.ts: locateHeader, parseFirmware, buildFirmware. *)
(*                                                                         *)
(* Representation.  A Buffer is a sequence of bytes (0..255); the code's   *)
(* 0-based offset o is element o+1.  A JavaScript string is a sequence of  *)
(* UTF-16 code units.  A u32 is the 4-tuple of its big-endian bytes (the   *)
(* model checker's integers are 32-bit signed, so 0xFFFFFFFF is not one).  *)
(***************************************************************************)
EXTENDS Integers, Sequences, FiniteSets, TLC

(* ----------------------------------------------------------------------- *)
(* Constants / sizes                                                       *)
(* ----------------------------------------------------------------------- *)
MAGIC_HEADER == <<79, 80, 69, 78>>        \* "OPEN"
MAGIC_HEADER_WRITE == <<79, 80, 69, 78>>  \* "OPEN"
MAGIC_PART == <<80, 65, 82, 84>>          \* "PART"
MAGIC_EXEC == <<69, 88, 69, 67>>          \* "EXEC"
MAGIC_END == <<69, 78, 68, 46>>           \* "END."
MAGIC_ENDS == <<69, 78, 68, 83>>          \* "ENDS"
MAGIC_LEN == 4

HEADER_SIZE == 4 + 256 + 4 + 4
PART_HEADER_SIZE == 4 + 16 + 12 + 4 * 6
PARTCRC_SIZE == 8
SIGNATURE_SIZE == 12

(* ----------------------------------------------------------------------- *)
(* Bytes and 32-bit words                                                  *)
(* ----------------------------------------------------------------------- *)
Min(a, b) == IF a <= b THEN a ELSE b
Max(a, b) == IF a >= b THEN a ELSE b

Xor1(a, b) == IF a = b THEN 0 ELSE 1

\* XOR of two 4-bit values, tabulated once.
XOR4 ==
  [a \in 0..15 |-> [b \in 0..15 |->
      Xor1(a % 2, b % 2)
    + 2 * Xor1((a \div 2) % 2, (b \div 2) % 2)
    + 4 * Xor1((a \div 4) % 2, (b \div 4) % 2)
    + 8 * Xor1(a \div 8, b \div 8)]]

\* XOR of two bytes, tabulated once from the 4-bit table.
XOR8_TABLE ==
  [a \in 0..255 |-> [b \in 0..255 |->
      16 * XOR4[a \div 16][b \div 16] + XOR4[a % 16][b % 16]]]

XOR8(a, b) == XOR8_TABLE[a][b]

Xor32(x, y) == <<XOR8(x[1], y[1]), XOR8(x[2], y[2]), XOR8(x[3], y[3]), XOR8(x[4], y[4])>>

\* x >>> 1 and x >>> 8 on a big-endian 4-tuple.
Shr1(x) ==
  << x[1] \div 2,
     (x[1] % 2) * 128 + x[2] \div 2,
     (x[2] % 2) * 128 + x[3] \div 2,
     (x[3] % 2) * 128 + x[4] \div 2 >>

Shr8(x) == <<0, x[1], x[2], x[3]>>

\* v >>> 0 of a non-negative number below 2^31, as big-endian bytes.
U32(v) == <<(v \div 16777216) % 256, (v \div 65536) % 256, (v \div 256) % 256, v % 256>>

\* A size field read low byte first.
U32ValLE(x) == ((x[4] * 256 + x[3]) * 256 + x[2]) * 256 + x[1]

\* The number a u32 stands for (used for sizes, which stay below 2^31 here).
U32Val(x) == ((x[1] * 256 + x[2]) * 256 + x[3]) * 256 + x[4]

(* ----------------------------------------------------------------------- *)
(* crc32 of the "crc" package: reflected CRC-32, polynomial 0xEDB88320,    *)
(* initial value and final XOR 0xFFFFFFFF, table driven.                   *)
(* ----------------------------------------------------------------------- *)
CRC_POLY == <<237, 184, 131, 32>>
ALL_ONES == <<255, 255, 255, 255>>

CrcBit(c) == IF c[4] % 2 = 1 THEN Xor32(CRC_POLY, Shr1(c)) ELSE Shr1(c)

CRC_TABLE ==
  [i \in 0..255 |->
     CrcBit(CrcBit(CrcBit(CrcBit(CrcBit(CrcBit(CrcBit(CrcBit(<<0, 0, 0, i>>))))))))]

CrcUpdate(reg, byte) == Xor32(CRC_TABLE[XOR8(reg[4], byte)], Shr8(reg))

\* The byte loop over b[lo..hi].  The range is split in halves, and the left
\* half's register is computed before the right half starts, so that the
\* evaluation depth stays logarithmic; the bytes are consumed left to right.
RECURSIVE CrcLoop(_, _, _, _)
CrcLoop(b, lo, hi, reg) ==
  IF lo > hi THEN reg
  ELSE IF lo = hi THEN CrcUpdate(reg, b[lo])
  ELSE LET mid == (lo + hi) \div 2
           left == CrcLoop(b, lo, mid, reg)
       IN  IF left \in Seq(Nat) THEN CrcLoop(b, mid + 1, hi, left) ELSE left

crc32(b) == Xor32(CrcLoop(b, 1, Len(b), ALL_ONES), ALL_ONES)

(* ----------------------------------------------------------------------- *)
(* Helpers                                                                 *)
(* ----------------------------------------------------------------------- *)

\* Buffer.subarray(s, e): both ends are clamped to the buffer.
subarray(b, s, e) ==
  LET s1 == Min(Max(s, 0), Len(b))
      e1 == Min(Max(e, 0), Len(b))
  IN  IF e1 <= s1 THEN <<>> ELSE [i \in 1..(e1 - s1) |-> b[s1 + i]]

\* Buffer.indexOf(pat, from, "ascii"): least offset >= from where pat occurs,
\* or -1.
indexOf(b, pat, from) ==
  LET hits == {p \in Max(from, 0)..(Len(b) - Len(pat)) :
                 \A k \in 1..Len(pat) : b[p + k] = pat[k]}
  IN  IF hits = {} THEN -1 ELSE CHOOSE p \in hits : \A q \in hits : p <= q

\* Buffer.toString("ascii", s, e): decoding clears the top bit of every byte.
toStringAscii(b, s, e) ==
  LET sl == subarray(b, s, e) IN [i \in 1..Len(sl) |-> sl[i] % 128]

\* Buffer.toString() (UTF-8): a byte below 0x80 is its own character, a
\* two-byte sequence (lead 0xC2..0xDF, continuation 0x80..0xBF) is one
\* character, and a byte that starts no well-formed sequence becomes U+FFFD.
\* (Three- and four-byte sequences need a lead byte 0xE0..0xF4 followed by
\* continuation bytes; no buffer of this model holds one, and a lead byte not
\* followed by a continuation byte is U+FFFD as well.)
IsLead2(x) == x >= 194 /\ x <= 223
IsCont(x) == x >= 128 /\ x <= 191

\* The character the decoder emits when it stands at sl[i], none when sl[i]
\* was consumed as the second byte of a two-byte sequence (a lead byte is
\* never a continuation byte, so it always starts a sequence).
utf8At(sl, i) ==
  IF i > 1 /\ IsLead2(sl[i - 1]) /\ IsCont(sl[i]) THEN <<>>
  ELSE IF sl[i] < 128 THEN <<sl[i]>>
  ELSE IF IsLead2(sl[i]) /\ i < Len(sl) /\ IsCont(sl[i + 1])
       THEN <<(sl[i] - 192) * 64 + (sl[i + 1] - 128)>>
  ELSE <<65533>>

RECURSIVE utf8Decode(_, _, _)
utf8Decode(sl, lo, hi) ==
  IF lo > hi THEN <<>>
  ELSE IF lo = hi THEN utf8At(sl, lo)
  ELSE LET mid == (lo + hi) \div 2
       IN  utf8Decode(sl, lo, mid) \o utf8Decode(sl, mid + 1, hi)

toStringUtf8(sl) == utf8Decode(sl, 1, Len(sl))

readCString(b, o, l) ==
  LET slice == subarray(b, o, o + l)
      nul == indexOf(slice, <<0>>, 0)
  IN  toStringUtf8(IF nul = -1 THEN slice ELSE subarray(slice, 0, nul))

\* Buffer.readUInt32BE(o) throws a RangeError unless 0 <= o <= length - 4.
InRange(b, o) == o >= 0 /\ o + 4 <= Len(b)

readU32BE(b, o) == <<b[o + 1], b[o + 2], b[o + 3], b[o + 4]>>

\* Overwrite b from offset o with the given bytes (never past the end).
poke(b, o, bytes) ==
  [i \in 1..Len(b) |-> IF i > o /\ i <= o + Len(bytes) THEN bytes[i - o] ELSE b[i]]

writeU32BE(b, o, v) == poke(b, o, v)

\* Buffer.write(str, o, len, "ascii"): one byte per code unit, its low 8 bits,
\* at most len bytes.
write(b, str, o, len) ==
  poke(b, o, [i \in 1..Min(len, Len(str)) |-> str[i] % 256])

crc32u(b) == crc32(b)

(* ----------------------------------------------------------------------- *)
(* locateHeader                                                            *)
(* ----------------------------------------------------------------------- *)
HeaderNotFound == -1

\* crcStored === crcCalc for the candidate header at offset p.
SelfCheck(b, p) == readU32BE(b, p + 260) = crc32u(subarray(b, p, p + 260))

\* 2. fallback: the "PART" occurrences, the header assumed HEADER_SIZE before.
RECURSIVE locatePart(_, _)
locatePart(b, partPos) ==
  IF partPos = -1 THEN HeaderNotFound
  ELSE LET cand == partPos - HEADER_SIZE
       IN  IF cand >= 0 /\ SelfCheck(b, cand) THEN cand
           ELSE locatePart(b, indexOf(b, MAGIC_PART, partPos + 4))

\* The first "OPEN" taken as the header, its checksum not looked at.
locateOpenNoCrc(b, pos) ==
  IF pos = -1 THEN locatePart(b, indexOf(b, MAGIC_PART, 0)) ELSE pos

\* 1. the "OPEN" occurrences, each with the CRC check.
RECURSIVE locateOpen(_, _)
locateOpen(b, pos) ==
  IF pos = -1 THEN locatePart(b, indexOf(b, MAGIC_PART, 0))
  ELSE IF pos + HEADER_SIZE <= Len(b) /\ SelfCheck(b, pos) THEN pos
  ELSE locateOpen(b, indexOf(b, MAGIC_HEADER, pos + 1))

locateHeader(b) == locateOpen(b, indexOf(b, MAGIC_HEADER, 0))

(* ----------------------------------------------------------------------- *)
(* Parser                                                                  *)
(* ----------------------------------------------------------------------- *)
NoOffset == -1

\* What parseFirmware hands back: a FirmwareImage (err = "none"), or the
\* error it throws.  "RangeError" is the out-of-range read of readUInt32BE,
\* whose message names the offset.
Image(version, parts, sigValid) ==
  [err |-> "none", offset |-> NoOffset, magic |-> <<>>,
   version |-> version, parts |-> parts, signatureValid |-> sigValid]

Thrown(kind, o, magic) ==
  [err |-> kind, offset |-> o, magic |-> magic,
   version |-> <<>>, parts |-> <<>>, signatureValid |-> FALSE]

\* The signature taken as valid whenever its magic is there.
parseSignatureUnchecked(b, h, off, parts) ==
  LET sigMagic == toStringAscii(b, off, off + 4)
  IN  IF sigMagic # MAGIC_END /\ sigMagic # MAGIC_ENDS
        THEN Thrown("BadSignatureMagic", NoOffset, <<>>)
      ELSE IF ~InRange(b, off + 4) THEN Thrown("RangeError", off + 4, <<>>)
      ELSE Image(readCString(b, h + 4, 256), parts, TRUE)

\* Line 160 with the payload left out of the checksum.
partCrcHeaderOnly(b, off, dataEnd) == crc32u(subarray(b, off, off + PART_HEADER_SIZE))

\* Line 160: the checksum of [segment header, payload].
partCrc(b, off, dataEnd) == crc32u(subarray(b, off, dataEnd))

\* Lines 182..188: the signature at off, after the segment loop.
parseSignature(b, h, off, parts) ==
  LET sigMagic == toStringAscii(b, off, off + 4)
  IN  IF sigMagic # MAGIC_END /\ sigMagic # MAGIC_ENDS
        THEN Thrown("BadSignatureMagic", NoOffset, <<>>)
      ELSE IF ~InRange(b, off + 4) THEN Thrown("RangeError", off + 4, <<>>)
      ELSE LET sigCrcStored == readU32BE(b, off + 4)
               sigCrcCalc == crc32u(subarray(b, 0, off))
           IN  Image(readCString(b, h + 4, 256), parts, sigCrcStored = sigCrcCalc)

\* Lines 139..180: the segment loop, one iteration per call.
RECURSIVE parseParts(_, _, _, _)
parseParts(b, h, off, parts) ==
  IF ~(off + SIGNATURE_SIZE <= Len(b)) THEN parseSignature(b, h, off, parts)
  ELSE
    LET magic == toStringAscii(b, off, off + 4)
        reads == <<off + 32, off + 36, off + 40, off + 44, off + 48, off + 52>>
        bad == {k \in 1..6 : ~InRange(b, reads[k])}
    IN  IF magic = MAGIC_END \/ magic = MAGIC_ENDS THEN parseSignature(b, h, off, parts)
        ELSE IF magic # MAGIC_PART /\ magic # MAGIC_EXEC
          THEN Thrown("UnknownPartMagic", NoOffset, magic)
        ELSE IF bad # {}
          THEN Thrown("RangeError", reads[CHOOSE k \in bad : \A j \in bad : k <= j], <<>>)
        ELSE
          LET data_size == readU32BE(b, off + 48)
              dataStart == off + PART_HEADER_SIZE
              dataEnd == dataStart + U32Val(data_size)
          IN  IF ~InRange(b, dataEnd) THEN Thrown("RangeError", dataEnd, <<>>)
              ELSE
                LET crcClaim == readU32BE(b, dataEnd)
                    crcCalc == partCrc(b, off, dataEnd)
                    part == [header |->
                               [magic |-> magic,
                                name |-> readCString(b, off + 4, 16),
                                memaddr |-> readU32BE(b, off + 32),
                                index |-> readU32BE(b, off + 36),
                                baseaddr |-> readU32BE(b, off + 40),
                                entryaddr |-> readU32BE(b, off + 44),
                                data_size |-> data_size,
                                part_size |-> readU32BE(b, off + 52)],
                             data |-> subarray(b, dataStart, dataEnd),
                             crcClaim |-> crcClaim,
                             crcCalc |-> crcCalc,
                             crcValid |-> (crcClaim = crcCalc)]
                IN  parseParts(b, h, dataEnd + PARTCRC_SIZE, Append(parts, part))

\* Lines 130..188: parseFirmware once locateHeader has answered.
parseFrom(b, headerOffset) ==
  IF headerOffset = HeaderNotFound THEN Thrown("HeaderNotFound", NoOffset, <<>>)
  ELSE parseParts(b, headerOffset, headerOffset + HEADER_SIZE, <<>>)

parseFirmware(b) == parseFrom(b, locateHeader(b))

(* ----------------------------------------------------------------------- *)
(* Build                                                                   *)
(* ----------------------------------------------------------------------- *)
RECURSIVE totalSize(_, _)
totalSize(parts, k) ==
  IF k > Len(parts) THEN HEADER_SIZE + SIGNATURE_SIZE
  ELSE PART_HEADER_SIZE + Len(parts[k].data) + PARTCRC_SIZE + totalSize(parts, k + 1)

\* A segment whose checksum is taken before the payload is copied in.
writePartCrcFirst(b, off, p) ==
  LET b1 == write(b, p.magic, off, MAGIC_LEN)
      b2 == write(b1, p.name, off + 4, Min(15, Len(p.name)))
      b3 == writeU32BE(b2, off + 32, p.memaddr)
      b4 == writeU32BE(b3, off + 36, p.index)
      b5 == writeU32BE(b4, off + 40, p.baseaddr)
      b6 == writeU32BE(b5, off + 44, p.entryaddr)
      b7 == writeU32BE(b6, off + 48, U32(Len(p.data)))
      b8 == writeU32BE(b7, off + 52, p.part_size)
      b9 == writeU32BE(b8, off + PART_HEADER_SIZE + Len(p.data),
                       crc32u(subarray(b8, off, off + PART_HEADER_SIZE + Len(p.data))))
  IN  poke(b9, off + PART_HEADER_SIZE, p.data)

\* Lines 333..347: one segment written at off.
writePart(b, off, p) ==
  LET b1 == write(b, p.magic, off, MAGIC_LEN)
      b2 == write(b1, p.name, off + 4, Min(15, Len(p.name)))
      b3 == writeU32BE(b2, off + 32, p.memaddr)
      b4 == writeU32BE(b3, off + 36, p.index)
      b5 == writeU32BE(b4, off + 40, p.baseaddr)
      b6 == writeU32BE(b5, off + 44, p.entryaddr)
      b7 == writeU32BE(b6, off + 48, U32(Len(p.data)))
      b8 == writeU32BE(b7, off + 52, p.part_size)
      b9 == poke(b8, off + PART_HEADER_SIZE, p.data)
  IN  writeU32BE(b9, off + PART_HEADER_SIZE + Len(p.data),
                 crc32u(subarray(b9, off, off + PART_HEADER_SIZE + Len(p.data))))

\* Lines 331..353: the segments in input order, then the signature.
RECURSIVE writeParts(_, _, _, _)
writeParts(b, parts, k, off) ==
  IF k > Len(parts)
    THEN LET b1 == write(b, MAGIC_END, off, MAGIC_LEN)
         IN  writeU32BE(b1, off + 4, crc32u(subarray(b1, 0, off)))
  ELSE writeParts(writePart(b, off, parts[k]), parts, k + 1,
                  off + PART_HEADER_SIZE + Len(parts[k].data) + PARTCRC_SIZE)

buildFirmware(parts, version) ==
  LET total == totalSize(parts, 1)
      b0 == [i \in 1..total |-> 0]
      b1 == write(b0, MAGIC_HEADER_WRITE, 0, MAGIC_LEN)
      b2 == write(b1, version, 4, Min(255, Len(version)))
      b3 == writeU32BE(b2, 260, crc32u(subarray(b2, 0, 260)))
  IN  writeParts(b3, parts, 1, HEADER_SIZE)

(* ----------------------------------------------------------------------- *)
(* Layout parsing: the LayoutPart records buildFirmware is given           *)
(* ----------------------------------------------------------------------- *)
MaxParts == 2
MaxPayload == 3
MaxPrefix == 5

NAME_SCRIPT == <<115, 99, 114, 105, 112, 116>>                \* "script"
NAME_KERNEL == <<107, 101, 114, 110, 101, 108>>               \* "kernel"
NAME_15 == <<102, 105, 108, 101, 115, 121, 115, 116, 101, 109, 45, 105, 109, 97, 103>>
                                                              \* "filesystem-imag"

\* parseLayout, line 299: the tag follows from the name.
layoutMagic(name) == IF name = NAME_SCRIPT THEN MAGIC_EXEC ELSE MAGIC_PART

LayoutPart(name, index, baseaddr, part_size, memaddr, entryaddr, data) ==
  [name |-> name, index |-> index, baseaddr |-> baseaddr, part_size |-> part_size,
   memaddr |-> memaddr, entryaddr |-> entryaddr, data |-> data,
   magic |-> layoutMagic(name)]

\* Payloads of up to MaxPayload bytes; the second one carries the top bit
\* and a zero byte.
Payload(n) == [i \in 1..Min(n, MaxPayload) |-> i]
PayloadHigh(n) == [i \in 1..Min(n, MaxPayload) |-> IF i = 1 THEN 255 ELSE 0]

KERNEL_PART ==
  LayoutPart(NAME_KERNEL, U32(0), U32(65536), U32(4096), U32(0), U32(0), Payload(MaxPayload))

PartSet ==
  { KERNEL_PART,
    LayoutPart(NAME_SCRIPT, U32(1), U32(0), U32(0), ALL_ONES, <<128, 0, 0, 0>>,
               PayloadHigh(MaxPayload - 1)),
    LayoutPart(NAME_15, U32(255), <<255, 254, 253, 252>>, U32(8192), U32(4660), U32(1),
               <<>>) }

\* The lists of up to n distinct parts, in every order.
RECURSIVE PartLists(_)
PartLists(n) ==
  IF n = 0 THEN {<<>>}
  ELSE LET shorter == PartLists(n - 1)
       IN  shorter \cup
           UNION {{Append(l, p) : p \in {q \in PartSet : \A k \in 1..Len(l) : l[k] # q}} :
                    l \in {x \in shorter : Len(x) = n - 1}}

VERSION_TEST == <<84, 69, 83, 84, 45, 49, 46, 48>>            \* "TEST-1.0"
VERSION_ACCENT == <<118, 233, 49>>                            \* "v", U+00E9, "1"
VERSION_255 == [i \in 1..255 |-> 65 + (i % 26)]

Versions == {VERSION_TEST, VERSION_ACCENT, VERSION_255}

\* Every part list under the version "TEST-1.0", and every version over the
\* one-segment layout.
Layouts ==
  {[version |-> VERSION_TEST, parts |-> l] : l \in PartLists(MaxParts)}
  \cup {[version |-> v, parts |-> <<KERNEL_PART>>] : v \in Versions}

(* ----------------------------------------------------------------------- *)
(* Where buildFirmware puts things (its running off, lines 331..353)       *)
(* ----------------------------------------------------------------------- *)
RECURSIVE partOffset(_, _)
partOffset(parts, k) ==
  IF k = 1 THEN HEADER_SIZE
  ELSE partOffset(parts, k - 1) + PART_HEADER_SIZE + Len(parts[k - 1].data) + PARTCRC_SIZE

signatureOffset(parts) == partOffset(parts, Len(parts) + 1)

dataStartOf(parts, k) == partOffset(parts, k) + PART_HEADER_SIZE
dataEndOf(parts, k) == dataStartOf(parts, k) + Len(parts[k].data)

(* ----------------------------------------------------------------------- *)
(* State                                                                   *)
(* ----------------------------------------------------------------------- *)
VARIABLES
  layout,   \* the parts and the version buildFirmware is called with
  buf,      \* the file: what buildFirmware wrote, then what became of it
  fw0,      \* parseFirmware's result on the file as built
  fw,       \* parseFirmware's latest result
  hdr,      \* locateHeader's latest result (the debug line "Header found @")
  mut,      \* what was done to the file between the two parses
  pc        \* "start", "built", "parsed", "changed", "reparsed"

vars == <<layout, buf, fw0, fw, hdr, mut, pc>>

NotParsed == Thrown("not parsed", NoOffset, <<>>)

Mut(kind, part, at, bit, key) ==
  [kind |-> kind, part |-> part, at |-> at, bit |-> bit, key |-> key]

NoMut == Mut("none", 0, 0, 0, "none")

Init ==
  /\ layout \in Layouts
  /\ buf = <<>>
  /\ fw0 = NotParsed
  /\ fw = NotParsed
  /\ hdr = HeaderNotFound
  /\ mut = NoMut
  /\ pc = "start"

\* build <layout> --version <str>
Build ==
  /\ pc = "start"
  /\ buf' = buildFirmware(layout.parts, layout.version)
  /\ pc' = "built"
  /\ UNCHANGED <<layout, fw0, fw, hdr, mut>>

\* split <image>: the file is read and parsed.
Parse ==
  /\ pc \in {"built", "changed"}
  /\ hdr' = locateHeader(buf)
  /\ fw' = parseFrom(buf, hdr')
  /\ fw0' = IF pc = "built" THEN fw' ELSE fw0
  /\ pc' = IF pc = "built" THEN "parsed" ELSE "reparsed"
  /\ UNCHANGED <<layout, buf, mut>>

(* ----------------------------------------------------------------------- *)
(* The file changes between two reads                                      *)
(* ----------------------------------------------------------------------- *)
flipBit(b, o, k) ==
  LET w == 2 ^ k
      x == b[o + 1]
  IN  [b EXCEPT ![o + 1] = IF (x \div w) % 2 = 1 THEN x - w ELSE x + w]

Change(b, m) ==
  /\ pc = "parsed"
  /\ buf' = b
  /\ mut' = m
  /\ pc' = "changed"
  /\ UNCHANGED <<layout, fw0, fw, hdr>>

FlipPayloadBit ==
  \E i \in 1..Len(layout.parts) :
    \E o \in dataStartOf(layout.parts, i)..(dataEndOf(layout.parts, i) - 1), k \in 0..7 :
      Change(flipBit(buf, o, k), Mut("payload", i, o, k, "none"))

FlipSignatureBit ==
  \E j \in 0..(SIGNATURE_SIZE - 1), k \in 0..7 :
    LET o == signatureOffset(layout.parts) + j
    IN  Change(flipBit(buf, o, k), Mut("signature", 0, o, k, "none"))

FlipMagicBit ==
  \E i \in 1..Len(layout.parts), j \in 0..(MAGIC_LEN - 1), k \in 0..7 :
    LET o == partOffset(layout.parts, i) + j
    IN  Change(flipBit(buf, o, k), Mut("magic", i, o, k, "none"))

FlipHeaderBit ==
  \E o \in {0, 4, 259, 260, 263}, k \in {0, 7} :
    Change(flipBit(buf, o, k), Mut("header", 0, o, k, "none"))

\* The file is cut to its first n bytes: inside a payload, inside a segment
\* header, after a segment, inside the signature.
CutPoints(parts) ==
  UNION {dataStartOf(parts, i)..(dataEndOf(parts, i) - 1) : i \in 1..Len(parts)}
  \cup {partOffset(parts, i) + d : i \in 1..(Len(parts) + 1), d \in {0, 4, 8, 11}}
  \cup {partOffset(parts, i) + d : i \in 1..Len(parts), d \in {12, 34, 50}}
  \cup {0, HEADER_SIZE - 1}

Truncate ==
  \E n \in CutPoints(layout.parts) :
    Change(subarray(buf, 0, n), Mut("truncate", 0, n, 0, "none"))

\* Vendor wrapper bytes before the container: zeros, or the letters of the
\* header magic over and over (a header magic with no matching checksum).
Wrapper(n, fill) ==
  [i \in 1..n |-> IF fill = "zero" THEN 0 ELSE MAGIC_HEADER[((i - 1) % MAGIC_LEN) + 1]]

Prepend ==
  \E n \in 1..MaxPrefix, fill \in {"zero", "magic"} :
    Change(Wrapper(n, fill) \o buf, Mut("prefix", 0, n, 0, "none"))

\* The same container twice in one file.
Concat == Change(buf \o buf, Mut("concat", 0, Len(buf), 0, "none"))

\* A 256- or 512-byte block after the signature; the caller has no public
\* key, or one the block does not verify under.
AppendSigBlock ==
  \E size \in {256, 512}, key \in {"none", "wrong"} :
    Change(buf \o [i \in 1..size |-> 0], Mut("sigblock", 0, size, 0, key))

\* A container of the generation whose stored signature checksum covers
\* [0, signatureOffset + 12): the checksum field holds the CRC-32 residue
\* 0x2144DF1C and the pad holds, low byte first, the CRC-32 of everything
\* before the pad, which makes the CRC-32 of the whole range the residue.
CRC_RESIDUE == <<33, 68, 223, 28>>

signInclusive(b, off) ==
  LET b1 == writeU32BE(b, off + 4, CRC_RESIDUE)
      c == crc32u(subarray(b1, 0, off + 8))
  IN  poke(b1, off + 8, <<c[4], c[3], c[2], c[1]>>)

SignInclusive ==
  LET off == signatureOffset(layout.parts)
  IN  Change(signInclusive(buf, off), Mut("inclusive", 0, off, 0, "none"))

\* A container whose header carries another vendor magic ("UBNT") with its
\* checksums made right again: only the segment magic can locate it.
MAGIC_UBNT == <<85, 66, 78, 84>>

foreignHeader(b, off) ==
  LET b1 == poke(b, 0, MAGIC_UBNT)
      b2 == writeU32BE(b1, 260, crc32u(subarray(b1, 0, 260)))
  IN  writeU32BE(b2, off + 4, crc32u(subarray(b2, 0, off)))

ForeignHeader ==
  LET off == signatureOffset(layout.parts)
  IN  Change(foreignHeader(buf, off), Mut("foreign", 0, off, 0, "none"))

Next ==
  \/ Build
  \/ Parse
  \/ FlipPayloadBit
  \/ FlipSignatureBit
  \/ FlipMagicBit
  \/ FlipHeaderBit
  \/ Truncate
  \/ Prepend
  \/ Concat
  \/ AppendSigBlock
  \/ SignInclusive
  \/ ForeignHeader

Spec == Init /\ [][Next]_vars

(* ----------------------------------------------------------------------- *)
(* Properties                                                              *)
(* ----------------------------------------------------------------------- *)
Parsed == pc \in {"parsed", "changed", "reparsed"}
Reparsed(kind) == pc = "reparsed" /\ mut.kind = kind

AllCrcValid(image) == \A k \in 1..Len(image.parts) : image.parts[k].crcValid

SameCrcValid(a, b) ==
  /\ Len(a.parts) = Len(b.parts)
  /\ \A k \in 1..Len(a.parts) : a.parts[k].crcValid = b.parts[k].crcValid

hasMagicAt(b, o, magic) ==
  o >= 0 /\ o + MAGIC_LEN <= Len(b) /\ \A k \in 1..MAGIC_LEN : b[o + k] = magic[k]

(* C1.  Round-trip validity: parseFirmware of the buffer buildFirmware      *)
(* wrote succeeds, reports signatureValid, and reports crcValid for every  *)
(* decoded segment.                                                        *)
Thm_C1 ==
  Parsed => /\ fw0.err = "none"
            /\ fw0.signatureValid
            /\ AllCrcValid(fw0)

Wit_C1 ==
  /\ pc = "parsed"
  /\ Len(layout.parts) = MaxParts
  /\ Len(fw0.parts) = MaxParts
  /\ fw0.signatureValid
  /\ AllCrcValid(fw0)

(* C2.  Round-trip content: the decoded version is the layout's version,   *)
(* and the decoded segments are the layout's, in order, each with the same *)
(* tag, name, four addressing fields, allocated size and payload, and a    *)
(* declared size equal to the payload length.                              *)
SamePart(d, p) ==
  /\ d.header.magic = p.magic
  /\ d.header.name = p.name
  /\ d.header.memaddr = p.memaddr
  /\ d.header.index = p.index
  /\ d.header.baseaddr = p.baseaddr
  /\ d.header.entryaddr = p.entryaddr
  /\ d.header.part_size = p.part_size
  /\ d.data = p.data
  /\ d.header.data_size = U32(Len(p.data))

Cex_C2 ==
  Parsed => /\ fw0.err = "none"
            /\ fw0.version = layout.version
            /\ Len(fw0.parts) = Len(layout.parts)
            /\ \A k \in 1..Len(layout.parts) : SamePart(fw0.parts[k], layout.parts[k])

(* C6.  Checksum sensitivity: after one bit of the payload of segment i is *)
(* flipped, decoding still succeeds and returns all n segments, segment i  *)
(* has crcValid false and every other segment has crcValid true.           *)
Thm_C6 ==
  Reparsed("payload") =>
    /\ fw.err = "none"
    /\ Len(fw.parts) = Len(layout.parts)
    /\ \A j \in 1..Len(fw.parts) : fw.parts[j].crcValid = (j # mut.part)

Wit_C6 ==
  /\ Reparsed("payload")
  /\ Len(fw.parts) = MaxParts
  /\ ~fw.parts[mut.part].crcValid
  /\ \E j \in 1..Len(fw.parts) : j # mut.part /\ fw.parts[j].crcValid

(* C3.  Header robustness: with 1..4095 wrapper bytes that hold no header  *)
(* magic with a matching self-checksum put before a valid container,       *)
(* parseFirmware returns the same version, the same segments with the same *)
(* crcValid flags, and the same signatureValid as without them.            *)
Cex_C3 ==
  ( /\ Reparsed("prefix")
    /\ mut.at >= 1 /\ mut.at <= 4095
    /\ ~\E p \in 0..(mut.at - 1) : hasMagicAt(buf, p, MAGIC_HEADER) /\ SelfCheck(buf, p) )
  => /\ fw.err = "none"
     /\ fw.version = fw0.version
     /\ fw.parts = fw0.parts
     /\ fw.signatureValid = fw0.signatureValid

(* C4.  Signature checksum acceptance: when the checksum stored at the     *)
(* signature offset equals CRC-32 over [0, signatureOffset) or CRC-32 over *)
(* [0, signatureOffset + 12), the decoder reports signatureValid.          *)
Cex_C4 ==
  ( /\ pc \in {"parsed", "reparsed"}
    /\ mut.kind \in {"none", "inclusive", "sigblock"}
    /\ fw.err = "none" )
  => LET off == signatureOffset(layout.parts)
         stored == readU32BE(buf, off + 4)
     IN  ( \/ stored = crc32(subarray(buf, 0, off))
           \/ stored = crc32(subarray(buf, 0, off + SIGNATURE_SIZE)) )
         => fw.signatureValid

(* C5.  Tamper detection, as claimed: after any single bit of the 12-byte  *)
(* signature region (magic, stored checksum or pad) is flipped, decoding   *)
(* yields signatureValid false and every segment's crcValid as before.     *)
Cex_C5 ==
  Reparsed("signature") =>
    /\ fw.err = "none"
    /\ ~fw.signatureValid
    /\ SameCrcValid(fw, fw0)

(* C5, amended.  After any single bit of the 4-byte stored checksum of the *)
(* signature is flipped, decoding yields signatureValid false and every    *)
(* segment's crcValid as before the flip.                                  *)
InStoredChecksum ==
  /\ mut.at >= signatureOffset(layout.parts) + 4
  /\ mut.at < signatureOffset(layout.parts) + 8

Thm_C5 ==
  (Reparsed("signature") /\ InStoredChecksum) =>
    /\ fw.err = "none"
    /\ ~fw.signatureValid
    /\ SameCrcValid(fw, fw0)

Wit_C5 ==
  /\ Reparsed("signature")
  /\ InStoredChecksum
  /\ fw0.signatureValid
  /\ ~fw.signatureValid
  /\ Len(fw.parts) = MaxParts

(* C7.  Key gating: with a 256- or 512-byte block after the signature and  *)
(* no public key, signatureValid is what it is without the block; with a   *)
(* public key under which the block does not verify, signatureValid is     *)
(* false even though the stored signature checksum matched.                *)
Cex_C7 ==
  Reparsed("sigblock") =>
    /\ fw.err = "none"
    /\ mut.key = "none" => fw.signatureValid = fw0.signatureValid
    /\ mut.key = "wrong" => ~fw.signatureValid

(* C8.  Truncated input: a valid container cut inside a segment's payload  *)
(* makes parseFirmware fail with the out-of-range read error that names    *)
(* the offset (the end of that payload), and no result ever holds a        *)
(* segment whose payload is shorter than its declared size.                *)
CutInPayload(i) ==
  /\ mut.at >= dataStartOf(layout.parts, i)
  /\ mut.at < dataEndOf(layout.parts, i)

NoShortSegment(image) ==
  image.err = "none" =>
    \A k \in 1..Len(image.parts) :
      Len(image.parts[k].data) = U32Val(image.parts[k].header.data_size)

Thm_C8 ==
  /\ NoShortSegment(fw)
  /\ \A i \in 1..Len(layout.parts) :
       (Reparsed("truncate") /\ CutInPayload(i)) =>
         /\ fw.err = "RangeError"
         /\ fw.offset = dataEndOf(layout.parts, i)

Wit_C8 ==
  /\ Reparsed("truncate")
  /\ \E i \in 1..Len(layout.parts) :
       /\ CutInPayload(i)
       /\ mut.at > dataStartOf(layout.parts, i)
       /\ i = MaxParts
  /\ fw.err = "RangeError"

(* C9.  Malformed magic: when the 4 bytes where a segment or signature     *)
(* magic is expected are none of "PART", "EXEC", "END.", "ENDS", decoding  *)
(* stops with the unknown-magic error naming that magic, and returns no    *)
(* container.                                                              *)
MagicPosition ==
  IF mut.kind = "magic" THEN partOffset(layout.parts, mut.part)
  ELSE signatureOffset(layout.parts)

Cex_C9 ==
  ( /\ pc = "reparsed"
    /\ \/ mut.kind = "magic"
       \/ mut.kind = "signature" /\ mut.at < signatureOffset(layout.parts) + MAGIC_LEN
    /\ readU32BE(buf, MagicPosition) \notin {MAGIC_PART, MAGIC_EXEC, MAGIC_END, MAGIC_ENDS} )
  => /\ fw.err = "UnknownPartMagic"
     /\ fw.magic = readU32BE(buf, MagicPosition)

(* C10.  Header location, first match wins: locateHeader returns the least *)
(* p with "OPEN" at p, p + 268 <= length and CRC-32 of [p, p + 260) equal  *)
(* to the word at p + 260; if there is none, q - 268 for the first "PART"  *)
(* at q with q - 268 >= 0 that passes the same check; if there is none     *)
(* either, it fails.  A returned offset h has h + 268 <= length and passes *)
(* the check.                                                              *)
OpenCandidates(b) ==
  {p \in 0..(Len(b) - HEADER_SIZE) : hasMagicAt(b, p, MAGIC_HEADER) /\ SelfCheck(b, p)}

PartCandidates(b) ==
  {q \in HEADER_SIZE..(Len(b) - MAGIC_LEN) :
     hasMagicAt(b, q, MAGIC_PART) /\ SelfCheck(b, q - HEADER_SIZE)}

Least(S) == CHOOSE x \in S : \A y \in S : x <= y

Thm_C10 ==
  pc \in {"parsed", "reparsed"} =>
    LET opens == OpenCandidates(buf)
        parts == PartCandidates(buf)
    IN  /\ hdr = IF opens # {} THEN Least(opens)
                 ELSE IF parts # {} THEN Least(parts) - HEADER_SIZE
                 ELSE HeaderNotFound
        /\ hdr # HeaderNotFound => hdr + HEADER_SIZE <= Len(buf) /\ SelfCheck(buf, hdr)

Wit_C10 ==
  /\ Reparsed("foreign")
  /\ OpenCandidates(buf) = {}
  /\ PartCandidates(buf) # {}
  /\ hdr = Least(PartCandidates(buf)) - HEADER_SIZE

====
